---- MODULE Spec2Model ----
(***************************************************************************)
(* A model of the Button component of src/components/app/app.tsx: the      *)
(* cache-first repository fetch run by its mount effect, the rendered      *)
(* `disabled` attribute, the click handler and the pointer handlers.       *)
(*                                                                         *)
(* One page is modelled.  Mount is a page load: it creates a fresh         *)
(* component instance (state from the useState initialisers) and abandons  *)
(* whatever the previous instance was waiting for.  localStorage and the   *)
(* clock survive page loads.                                               *)
(*                                                                         *)
(* Lines 107-120 (the query string) only decide the URL that is requested; *)
(* they change no state and the response is an input here, so the URL is   *)
(* not part of the state.                                                  *)
(***************************************************************************)
EXTENDS Integers, Sequences, FiniteSets

\* ---------------------------------------------------------------- bounds
\* Date.now() at the first page load (ms).
StartTime == 1000000
\* How many times the clock advances.
MaxTicks == 3
\* Longest item list a response carries.
MaxItems == 2
\* window.open calls recorded per page load.
MaxClicks == 2

\* ------------------------------------------------------- program constants
CACHE_KEY == "gitscovery_repos"
CACHE_TIMESTAMP_KEY == "gitscovery_timestamp"
CACHE_DURATION == 1000 * 60 * 30

\* ------------------------------------------------------------ input domains
Urls == {"u1", "u2"}
IssueCounts == {0, 3}
Items == [open_issues_count : IssueCounts, html_url : Urls]
ItemLists == UNION {[1..n -> Items] : n \in 0..MaxItems}
\* A response body: not JSON at all, JSON without an `items` array, or JSON
\* with one.
Bodies == {[kind |-> "notjson", items |-> <<>>], [kind |-> "noitems", items |-> <<>>]}
            \cup {[kind |-> "items", items |-> s] : s \in ItemLists}
NoBody == [kind |-> "none", items |-> <<>>]
Statuses == {200, 403, 404, 429, 500}
NoRes == [status |-> 0, body |-> NoBody]
\* The clock advances by 1 ms or by one millisecond less than the TTL, so
\* that ages TTL-1, TTL and TTL+1 all occur.
Steps == {1, CACHE_DURATION - 1}
\* Pointer coordinates (clientX, clientY) and the button's bounding box.
Pointers == {<<0, 0>>, <<2, 2>>}
Rect == [left |-> 0, top |-> 0, width |-> 2, height |-> 2]
UNDEFINED == "undefined"

VARIABLES
  now,           \* Date.now()
  ticks,         \* how often the clock advanced
  localStorage,  \* key -> [present, text]
  pc,            \* where the component instance is
  repos,         \* useState repos
  isLoading,     \* useState isLoading
  position,      \* useState position
  disabled,      \* the rendered button's disabled attribute
  cached,        \* fetchRepos' local `cached`
  res,           \* the response fetchRepos is holding
  console,       \* the last console call of this page load
  outcome,       \* how the promise of fetchRepos() settled
  requests,      \* HTTP requests issued by this page load
  effectRuns,    \* runs of the mount effect in this page load
  opened         \* URLs given to window.open by this page load

vars == <<now, ticks, localStorage, pc, repos, isLoading, position, disabled,
          cached, res, console, outcome, requests, effectRuns, opened>>

\* ------------------------------------------------------------ conversions
Absent == [present |-> FALSE, text |-> <<>>]
Stored(t) == [present |-> TRUE, text |-> t]

\* localStorage.getItem: null for a key never set.
getItem(key) == localStorage[key]

\* JavaScript truthiness of a getItem result: null and "" are falsy.
Truthy(v) == v.present /\ v.text # <<>>

\* Number.prototype.toString of a non-negative integer: its decimal digits.
RECURSIVE ToString(_)
ToString(n) == IF n < 10 THEN <<n>> ELSE Append(ToString(n \div 10), n % 10)

\* parseInt of a string of decimal digits.
RECURSIVE parseInt(_)
parseInt(s) ==
  IF Len(s) = 1 THEN s[1]
  ELSE 10 * parseInt(SubSeq(s, 1, Len(s) - 1)) + s[Len(s)]

\* JSON.stringify of an array of strings: the token text [ "a" , "b" ].
RECURSIVE JoinTokens(_)
JoinTokens(arr) ==
  IF arr = <<>> THEN <<>>
  ELSE IF Len(arr) = 1 THEN << <<"str", arr[1]>> >>
  ELSE << <<"str", arr[1]>>, <<",">> >> \o JoinTokens(Tail(arr))

JSONstringify(arr) == << <<"[">> >> \o JoinTokens(arr) \o << <<"]">> >>

\* JSON.parse of such a text: the strings between the brackets.  (Every text
\* the program stores is written by JSONstringify, so the SyntaxError of a
\* malformed text does not occur.)
JSONparse(text) ==
  LET n == (Len(text) - 1) \div 2
  IN  [i \in 1..n |-> text[2 * i][2]]
\* ---------------------------------------------------------- pure helpers
\* Lines 94-95: timestamp && Date.now() - parseInt(timestamp) < CACHE_DURATION
isCacheValidInclusive(timestamp, t) ==
  Truthy(timestamp) /\ t - parseInt(timestamp.text) <= CACHE_DURATION

isCacheValid(timestamp, t) ==
  Truthy(timestamp) /\ t - parseInt(timestamp.text) < CACHE_DURATION

\* Line 125: res.ok is true for a status in 200..299.
ok(status) == status >= 200 /\ status <= 299

\* Line 126: (res.status === 403 || res.status === 429) && cached
useStaleCacheOnly429(status, c) == status = 429 /\ Truthy(c)

useStaleCacheAnyStatus(status, c) == Truthy(c)

useStaleCache(status, c) == (status = 403 \/ status = 429) /\ Truthy(c)

\* Lines 141-145: json.items.filter(open_issues_count > 0).map(html_url),
\* one item after the other.
RECURSIVE validUrlsKeepAll(_)
validUrlsKeepAll(items) ==
  IF items = <<>> THEN <<>>
  ELSE IF Head(items).open_issues_count >= 0
       THEN <<Head(items).html_url>> \o validUrlsKeepAll(Tail(items))
       ELSE validUrlsKeepAll(Tail(items))

RECURSIVE validUrls(_)
validUrls(items) ==
  IF items = <<>> THEN <<>>
  ELSE IF Head(items).open_issues_count > 0
       THEN <<Head(items).html_url>> \o validUrls(Tail(items))
       ELSE validUrls(Tail(items))

\* Lines 150-151: the two setItem calls.
saveToCacheListOnly(store, urls, t) ==
  [store EXCEPT ![CACHE_KEY] = Stored(JSONstringify(urls))]

saveToCache(store, urls, t) ==
  [store EXCEPT ![CACHE_KEY] = Stored(JSONstringify(urls)),
                ![CACHE_TIMESTAMP_KEY] = Stored(ToString(t))]

\* Lines 154-156: finally { setIsLoading(false) }: the value of isLoading
\* after the finally block, given its value before.
finallyMissing(loading) == loading

finally(loading) == FALSE

\* Line 172: disabled={isLoading || repos.length === 0}
DisabledLoadingOnly(loading, list) == loading

DisabledBoth(loading, list) == loading /\ Len(list) = 0

Disabled(loading, list) == loading \/ Len(list) = 0

\* helpers/random pick: one element of the array, any of them; undefined
\* for an empty array.
pick(arr) == IF arr = <<>> THEN {UNDEFINED} ELSE {arr[i] : i \in DOMAIN arr}

\* Lines 61-62: the pointer's displacement from the button's centre.
middle(p) == [x |-> p[1] - (Rect.left + Rect.width \div 2),
              y |-> p[2] - (Rect.top + Rect.height \div 2)]

\* Line 87-160: the effect has an empty dependency list, so it runs once,
\* after the first render.
effectPendingEveryRender == pc \in {"rendered", "done"}

effectPending == pc = "rendered"

\* ------------------------------------------------------------------ Init
\* No page is loaded and nothing has been stored yet.
Init ==
  /\ now = StartTime
  /\ ticks = 0
  /\ localStorage = [k \in {CACHE_KEY, CACHE_TIMESTAMP_KEY} |-> Absent]
  /\ pc = "unmounted"
  /\ repos = <<>>
  /\ isLoading = FALSE
  /\ position = [x |-> 0, y |-> 0]
  /\ disabled = TRUE
  /\ cached = Absent
  /\ res = NoRes
  /\ console = "none"
  /\ outcome = "pending"
  /\ requests = 0
  /\ effectRuns = 0
  /\ opened = <<>>

\* --------------------------------------------------------------- actions
\* Time passes.
Tick ==
  /\ ticks < MaxTicks
  /\ \E d \in Steps : now' = now + d
  /\ ticks' = ticks + 1
  /\ UNCHANGED <<localStorage, pc, repos, isLoading, position, disabled,
                 cached, res, console, outcome, requests, effectRuns, opened>>

\* A page load: Button is rendered for the first time (lines 52-85 and
\* 168-182) with the useState initial values.
Mount ==
  /\ pc' = "rendered"
  /\ repos' = <<>>
  /\ isLoading' = FALSE
  /\ position' = [x |-> 0, y |-> 0]
  /\ disabled' = Disabled(FALSE, <<>>)
  /\ cached' = Absent
  /\ res' = NoRes
  /\ console' = "none"
  /\ outcome' = "pending"
  /\ requests' = 0
  /\ effectRuns' = 0
  /\ opened' = <<>>
  /\ UNCHANGED <<now, ticks, localStorage>>

\* The mount effect calls fetchRepos, which runs to its early return
\* (line 99) or to the await of fetch (line 123).
RunEffect ==
  /\ effectPending
  /\ effectRuns' = effectRuns + 1
  /\ LET c == getItem(CACHE_KEY)
         timestamp == getItem(CACHE_TIMESTAMP_KEY)
     IN  /\ cached' = c
         /\ IF Truthy(c) /\ isCacheValid(timestamp, now)
            THEN /\ repos' = JSONparse(c.text)
                 /\ isLoading' = isLoading
                 /\ requests' = requests
                 /\ pc' = "done"
                 /\ outcome' = "returned"
            ELSE /\ repos' = repos
                 /\ isLoading' = TRUE
                 /\ requests' = requests + 1
                 /\ pc' = "awaitFetch"
                 /\ outcome' = outcome
  /\ disabled' = Disabled(isLoading', repos')
  /\ UNCHANGED <<now, ticks, localStorage, position, res, console, opened>>

\* fetch rejects (network failure): catch logs, finally clears loading.
FetchReject ==
  /\ pc = "awaitFetch"
  /\ console' = "error"
  /\ isLoading' = finally(isLoading)
  /\ disabled' = Disabled(isLoading', repos)
  /\ pc' = "done"
  /\ outcome' = "returned"
  /\ UNCHANGED <<now, ticks, localStorage, repos, position, cached, res,
                 requests, effectRuns, opened>>

\* fetch resolves with a response (lines 123-137).
FetchResolve ==
  /\ pc = "awaitFetch"
  /\ \E status \in Statuses :
       IF ok(status)
       THEN /\ \E body \in Bodies : res' = [status |-> status, body |-> body]
            /\ pc' = "awaitJson"
            /\ UNCHANGED <<repos, isLoading, disabled, console, outcome>>
       ELSE /\ res' = [status |-> status, body |-> NoBody]
            /\ IF useStaleCache(status, cached)
               THEN /\ console' = "warn"
                    /\ repos' = JSONparse(cached.text)
               ELSE /\ console' = "error"
                    /\ repos' = repos
            /\ isLoading' = finally(isLoading)
            /\ disabled' = Disabled(isLoading', repos')
            /\ pc' = "done"
            /\ outcome' = "returned"
  /\ UNCHANGED <<now, ticks, localStorage, position, cached, requests,
                 effectRuns, opened>>

\* res.json() settles (lines 137-156).
JsonResolve ==
  /\ pc = "awaitJson"
  /\ IF res.body.kind = "items"
     THEN LET urls == validUrls(res.body.items)
          IN  /\ repos' = urls
              /\ localStorage' = saveToCache(localStorage, urls, now)
              /\ console' = console
     ELSE \* res.json() rejects, or json.items is undefined: TypeError
          /\ console' = "error"
          /\ UNCHANGED <<repos, localStorage>>
  /\ isLoading' = finally(isLoading)
  /\ disabled' = Disabled(isLoading', repos')
  /\ pc' = "done"
  /\ outcome' = "returned"
  /\ UNCHANGED <<now, ticks, position, cached, res, requests, effectRuns,
                 opened>>

\* A click on the button (lines 162-166, 172, 177).  A disabled button
\* dispatches no click.
handleClick ==
  /\ pc # "unmounted"
  /\ ~disabled
  /\ Len(opened) < MaxClicks
  /\ \E randomRepo \in pick(repos) : opened' = Append(opened, randomRepo)
  /\ UNCHANGED <<now, ticks, localStorage, pc, repos, isLoading, position,
                 disabled, cached, res, console, outcome, requests,
                 effectRuns>>

\* onMouseMove (lines 56-64).
handleMouse ==
  /\ pc # "unmounted"
  /\ \E p \in Pointers : position' = middle(p)
  /\ disabled' = Disabled(isLoading, repos)
  /\ UNCHANGED <<now, ticks, localStorage, pc, repos, isLoading, cached, res,
                 console, outcome, requests, effectRuns, opened>>

\* onTouchMove (lines 66-76): nothing happens without a first touch.
handleTouch ==
  /\ pc # "unmounted"
  /\ \E touches \in {<<>>} \cup {<<p>> : p \in Pointers} :
       position' = IF touches = <<>> THEN position ELSE middle(touches[1])
  /\ disabled' = Disabled(isLoading, repos)
  /\ UNCHANGED <<now, ticks, localStorage, pc, repos, isLoading, cached, res,
                 console, outcome, requests, effectRuns, opened>>

\* onMouseLeave / onTouchEnd (lines 78-80).
reset ==
  /\ pc # "unmounted"
  /\ position' = [x |-> 0, y |-> 0]
  /\ disabled' = Disabled(isLoading, repos)
  /\ UNCHANGED <<now, ticks, localStorage, pc, repos, isLoading, cached, res,
                 console, outcome, requests, effectRuns, opened>>

Next ==
  \/ Tick
  \/ Mount
  \/ RunEffect
  \/ FetchReject
  \/ FetchResolve
  \/ JsonResolve
  \/ handleClick
  \/ handleMouse
  \/ handleTouch
  \/ reset

Spec == Init /\ [][Next]_vars
\* ------------------------------------------------------- claim vocabulary
Range(f) == {f[i] : i \in DOMAIN f}

\* The urls of the items with a positive issue count, in order.
KeptUrls(items) ==
  LET kept == SelectSeq(items, LAMBDA it : it.open_issues_count > 0)
  IN  [i \in 1..Len(kept) |-> kept[i].html_url]

ListEntry == localStorage[CACHE_KEY]
StampEntry == localStorage[CACHE_TIMESTAMP_KEY]

\* The store holds a list and a timestamp less than 30 minutes old.
FreshEntry ==
  /\ ListEntry.present
  /\ StampEntry.present
  /\ now - parseInt(StampEntry.text) < 1800000

\* This step is the run of the initialization routine.
InitStep == effectRuns' = effectRuns + 1

\* C1: the initialization routine adopts the cached list and issues no
\* request exactly when the stored timestamp T satisfies now - T < 1800000;
\* in every other case (no entry, or now - T >= 1800000) it issues a request.
C1_CacheValidity ==
  [][InitStep =>
       /\ FreshEntry => /\ repos' = JSONparse(ListEntry.text)
                        /\ requests' = requests
                        /\ pc' = "done"
       /\ ~FreshEntry => /\ requests' = requests + 1
                         /\ pc' = "awaitFetch"
                         /\ repos' = repos]_vars

\* A cache hit at age 1799999 ms.
C1_Witness ==
  /\ pc = "done"
  /\ effectRuns = 1
  /\ requests = 0
  /\ StampEntry.present
  /\ now - parseInt(StampEntry.text) = 1799999
  /\ repos = JSONparse(ListEntry.text)

\* C2: in every state the control is enabled iff loading is false and the
\* candidate list is not empty.
C2_DisabledInvariant == (~disabled) <=> (isLoading = FALSE /\ Len(repos) > 0)

\* The control is enabled after a fetch that went to the network.
C2_Witness == ~disabled /\ requests = 1 /\ pc = "done"

\* C3: a fetch that completes with a success status and an item list makes
\* the candidate list the html_url values of the items with
\* open_issues_count > 0, in order, and stores that list with the current
\* time, whatever was stored before.
C3_FilterAndPersist ==
  [][(pc = "awaitJson" /\ res.body.kind = "items" /\ pc' = "done") =>
       /\ repos' = KeptUrls(res.body.items)
       /\ localStorage'[CACHE_KEY].present
       /\ JSONparse(localStorage'[CACHE_KEY].text) = KeptUrls(res.body.items)
       /\ localStorage'[CACHE_TIMESTAMP_KEY].present
       /\ parseInt(localStorage'[CACHE_TIMESTAMP_KEY].text) = now]_vars

\* Items (0, u1), (3, u2) gave the list <<u2>>, which is what is stored.
C3_Witness ==
  /\ pc = "done"
  /\ res.body.kind = "items"
  /\ res.body.items = <<[open_issues_count |-> 0, html_url |-> "u1"],
                        [open_issues_count |-> 3, html_url |-> "u2"]>>
  /\ repos = <<"u2">>
  /\ ListEntry = Stored(JSONstringify(<<"u2">>))
  /\ parseInt(StampEntry.text) = now

\* C4: with a cache entry present (expired or not), a fetch that completes
\* with status 403 or 429 leaves the candidate list equal to the cached
\* list, logs no error, raises nothing and ends with loading false.
C4_RateLimitFallback ==
  [][(/\ pc = "awaitFetch"
      /\ pc' = "done"
      /\ res'.status \in {403, 429}
      /\ ListEntry.present) =>
       /\ repos' = JSONparse(ListEntry.text)
       /\ console' # "error"
       /\ outcome' = "returned"
       /\ isLoading' = FALSE]_vars

\* A 403 answered from an expired, non-empty cache entry.
C4_Witness ==
  /\ pc = "done"
  /\ res.status = 403
  /\ ListEntry.present
  /\ now - parseInt(StampEntry.text) >= 1800000
  /\ Len(repos) > 0
  /\ repos = JSONparse(ListEntry.text)
  /\ console = "warn"

\* C5: every navigation request is for an element of the current candidate
\* list, and none is made while the list is empty.
C5_SelectionDomain ==
  [][Len(opened') > Len(opened) =>
       /\ Len(repos) > 0
       /\ opened' = Append(opened, opened'[Len(opened')])
       /\ opened'[Len(opened')] \in Range(repos)]_vars

\* Both elements of a two-element list have been opened.
C5_Witness ==
  /\ Len(repos) = 2
  /\ repos[1] # repos[2]
  /\ opened = <<repos[2], repos[1]>>

\* C6: a mount that finds an entry less than 30 minutes old yields an
\* enabled control, with no request and loading never true, and a click
\* opens a URL of the cached list.
C6_FreshCacheEnables ==
  [][(InitStep /\ FreshEntry) =>
       /\ ~disabled'
       /\ isLoading' = FALSE
       /\ requests' = requests
       /\ pick(repos') \subseteq Range(JSONparse(ListEntry.text))]_vars

\* C7: after any completion of the fetch loading is false.
C7_LoadingCleared == pc = "done" => isLoading = FALSE

\* Loading was set, the body turned out not to be JSON, loading is clear.
C7_Witness ==
  /\ pc = "done"
  /\ requests = 1
  /\ res.body.kind = "notjson"
  /\ isLoading = FALSE

\* This step completes the fetch with a hard failure: a network failure or
\* a non-2xx status that is not a 403/429 with an entry present, or a body
\* without a parsable item list.
HardFailureStep ==
  \/ /\ pc = "awaitFetch"
     /\ pc' = "done"
     /\ ~(res'.status \in {403, 429} /\ ListEntry.present)
  \/ /\ pc = "awaitJson"
     /\ pc' = "done"
     /\ res.body.kind # "items"

\* C8: a hard failure leaves the candidate list and both cache keys as they
\* were, is logged, does not leave the initialization routine, and leaves
\* the control disabled when the list was empty.
C8_HardFailure ==
  [][HardFailureStep =>
       /\ repos' = repos
       /\ localStorage' = localStorage
       /\ console' = "error"
       /\ outcome' = "returned"
       /\ (Len(repos) = 0 => disabled')]_vars

\* A 500 with a stale entry in the store: the entry is not adopted.
C8_Witness ==
  /\ pc = "done"
  /\ res.status = 500
  /\ ListEntry.present
  /\ Len(JSONparse(ListEntry.text)) > 0
  /\ repos = <<>>
  /\ disabled
  /\ console = "error"

\* C9: the initialization routine runs once per mount; it issues one request
\* when the entry is absent or expired and none otherwise; no other step
\* issues a request, so a mount never has more than one.
C9_OneFetchPerMount ==
  [][/\ InitStep => /\ effectRuns = 0
                    /\ requests = 0
                    /\ requests' = IF FreshEntry THEN 0 ELSE 1
     /\ (requests' # requests /\ ~InitStep) => (pc' = "rendered" /\ requests' = 0)
     /\ (effectRuns' # effectRuns /\ ~InitStep) =>
          (pc' = "rendered" /\ effectRuns' = 0)
     /\ pc' \in {"awaitFetch", "awaitJson"} => requests' = 1
     /\ pc' \in {"awaitFetch", "awaitJson", "done"} => effectRuns' = 1]_vars

\* A failed fetch that was not tried again.
C9_Witness ==
  /\ pc = "done"
  /\ res.status = 404
  /\ requests = 1
  /\ effectRuns = 1

\* C10: the cache keys change only when a successful fetch completes, which
\* sets both, the list to the filtered result and the timestamp to the
\* current time; so the timestamp is present iff the list is.
C10_CacheFrame ==
  /\ [](ListEntry.present <=> StampEntry.present)
  /\ [][localStorage' # localStorage =>
          /\ pc = "awaitJson"
          /\ res.body.kind = "items"
          /\ pc' = "done"
          /\ localStorage'[CACHE_KEY] = Stored(JSONstringify(KeptUrls(res.body.items)))
          /\ localStorage'[CACHE_TIMESTAMP_KEY].present
          /\ parseInt(localStorage'[CACHE_TIMESTAMP_KEY].text) = now]_vars

\* A 429 fallback from an expired entry: the timestamp was not refreshed.
C10_Witness ==
  /\ pc = "done"
  /\ res.status = 429
  /\ console = "warn"
  /\ StampEntry.present
  /\ now - parseInt(StampEntry.text) >= 1800000
====
